---- MODULE Spec2Model ----
(***************************************************************************)
(* E-Commerce API (src/main.py): request handlers over a document store.   *)
(*                                                                         *)
(* Values.  A JSON / Python value that may be None is modelled as a        *)
(* sequence: None is <<>>, a present value v is <<v>>.  Documents and      *)
(* request bodies are mappings from field names to such values; an absent  *)
(* key is a name outside the mapping's DOMAIN.  Prices are counted in      *)
(* cents and ratings in tenths, so 99.99 is 9999 and the rating range      *)
(* [0, 5] is 0..50.  A string is a TLA+ string; where the code looks       *)
(* inside a string (regex search, ObjectId grammar) its characters are     *)
(* given by Chars or the id text is a sequence of characters.              *)
(***************************************************************************)
EXTENDS Integers, Sequences, FiniteSets, TLC

VARIABLES
    db,        \* the store handle: "configured", "failing" or "unconfigured" (None)
    product,   \* collection db.product, in store-native (insertion) order
    order,     \* collection db.order, in insertion order
    nextId,    \* the next ObjectId the store generates
    clock,     \* the current UTC time
    req,       \* the last request received
    resp       \* the response to it, with the store calls the handler made

vars == <<db, product, order, nextId, clock, req, resp>>

\* Bounds of the model.
MaxProducts == 1
MaxOrders == 2
MaxClock == 2

None == <<>>
Some(v) == <<v>>

\* Python's dict.get(k): None when the key is absent.
Get(d, k) == IF k \in DOMAIN d THEN d[k] ELSE None

\* Python's dict.get(k, default).
GetOr(d, k, default) == IF k \in DOMAIN d THEN d[k] ELSE Some(default)

\* Python truthiness of an Optional[str]: None and "" are falsy.
Truthy(s) == s # None /\ s # Some("")

Min(a, b) == IF a < b THEN a ELSE b

\* ---------------------------------------------------------------- strings

\* The characters of the strings the model uses.
Chars(s) ==
    CASE s = "" -> <<>>
      [] s = "." -> <<".">>
      [] s = "mug" -> <<"m", "u", "g">>
      [] s = "Mug" -> <<"M", "u", "g">>
      [] s = "Old" -> <<"O", "l", "d">>
      [] s = "Wireless Headphones" ->
            <<"W", "i", "r", "e", "l", "e", "s", "s", " ",
              "H", "e", "a", "d", "p", "h", "o", "n", "e", "s">>
      [] s = "Smart Watch" ->
            <<"S", "m", "a", "r", "t", " ", "W", "a", "t", "c", "h">>
      [] s = "Running Shoes" ->
            <<"R", "u", "n", "n", "i", "n", "g", " ", "S", "h", "o", "e", "s">>
      [] s = "Backpack" -> <<"B", "a", "c", "k", "p", "a", "c", "k">>

UpperCase == <<"A", "B", "C", "D", "E", "F", "G", "H", "I", "J", "K", "L", "M",
               "N", "O", "P", "Q", "R", "S", "T", "U", "V", "W", "X", "Y", "Z">>
LowerCase == <<"a", "b", "c", "d", "e", "f", "g", "h", "i", "j", "k", "l", "m",
               "n", "o", "p", "q", "r", "s", "t", "u", "v", "w", "x", "y", "z">>

\* str.lower() of one character, tabulated over the model's characters.
Characters ==
    {UpperCase[i] : i \in DOMAIN UpperCase} \cup {LowerCase[i] : i \in DOMAIN LowerCase}
    \cup {" ", "."}
LowerTable ==
    [c \in Characters |->
        IF \E i \in DOMAIN UpperCase : UpperCase[i] = c
        THEN LowerCase[CHOOSE i \in DOMAIN UpperCase : UpperCase[i] = c]
        ELSE c]
Lower(c) == LowerTable[c]

\* One pattern character against one text character under option "i": "." is
\* the regex wildcard, any other character of the model's patterns is a literal.
RegexCharMatch(p, c) == p = "." \/ Lower(p) = Lower(c)

\* {"$regex": pattern, "$options": "i"}: an unanchored, case-insensitive regex
\* search of the pattern in the text.
RegexSearch(pattern, text) ==
    LET p == Chars(pattern)
        t == Chars(text)
    IN \E i \in 0..(Len(t) - Len(p)) :
          \A j \in 1..Len(p) : RegexCharMatch(p[j], t[i + j])

\* ---------------------------------------------------------------- ObjectId

HexDigits == <<"0", "1", "2", "3", "4", "5", "6", "7",
               "8", "9", "a", "b", "c", "d", "e", "f">>
HexUpper == <<"0", "1", "2", "3", "4", "5", "6", "7",
              "8", "9", "A", "B", "C", "D", "E", "F">>

IsHex(c) == \E i \in 1..16 : HexDigits[i] = c \/ HexUpper[i] = c
HexValue(c) == (CHOOSE i \in 1..16 : HexDigits[i] = c \/ HexUpper[i] = c) - 1

\* ObjectId.is_valid on a str: 24 hexadecimal characters.
IsValid(idText) == Len(idText) = 24 /\ \A i \in 1..24 : IsHex(idText[i])

\* ObjectId(idText): the id a valid text denotes (the model's ids fit in the last
\* two hex digits, the leading ones are significant all the same).
ObjectId(idText) ==
    IF \E i \in 1..22 : HexValue(idText[i]) # 0
    THEN 256 + HexValue(idText[23]) * 16 + HexValue(idText[24])
    ELSE HexValue(idText[23]) * 16 + HexValue(idText[24])

\* str(ObjectId): 24 lower-case hex digits, tabulated over the ids of two hex
\* digits.
StrTable ==
    [id \in 0..255 |->
        [i \in 1..24 |->
            IF i = 24 THEN HexDigits[(id % 16) + 1]
            ELSE IF i = 23 THEN HexDigits[((id \div 16) % 16) + 1]
            ELSE "0"]]
Str(id) == StrTable[id]

\* ---------------------------------------------------------------- the store

Eq(v) == [op |-> "eq", value |-> v]
Regex(pattern, options) == [op |-> "regex", pattern |-> pattern, options |-> options]

\* One condition of a filter on one stored value.
Holds(value, cond) ==
    IF cond.op = "eq" THEN value = cond.value
    ELSE value # None /\ RegexSearch(cond.pattern, value[1])

\* A document matches a filter when every field the filter names is present and
\* satisfies its condition; the empty filter matches every document.
Matches(d, filter) ==
    \A k \in DOMAIN filter : k \in DOMAIN d /\ Holds(d[k], filter[k])

\* collection.find(filter): the matching documents in store-native order.
Find(collection, filter) == SelectSeq(collection, LAMBDA d : Matches(d, filter))

\* collection.find_one(filter): the first matching document, or None.
FindOne(collection, filter) ==
    LET found == Find(collection, filter)
    IN IF found = <<>> THEN None ELSE Some(found[1])

\* cursor.limit(n): a limit of 0 is no limit.
Limit(docs, n) == IF n = 0 THEN docs ELSE SubSeq(docs, 1, Min(n, Len(docs)))

\* create_document(collection_name, data): inserts the data with a fresh _id and
\* a creation timestamp, returns the new id as text.
create_document(collection, id, data, now) ==
    [collection |-> Append(collection, ("_id" :> id) @@ ("created_at" :> Some(now)) @@ data),
     id |-> Str(id),
     nextId |-> id + 1]

\* ---------------------------------------------------------------- responses

Response(op, status, detail, body, calls) ==
    [op |-> op, status |-> status, detail |-> detail, body |-> body, calls |-> calls]

\* raise HTTPException(status_code, detail)
HTTPException(op, status, detail, calls) == Response(op, status, detail, None, calls)

\* An exception no handler catches: the framework answers 500.
Unhandled(op, calls) == Response(op, 500, "Internal Server Error", None, calls)

\* create_document on a store that is not configured refuses without attempting
\* the call (StoreUnconfigured); on a failing store its insert raises.
create_document_raises(op) ==
    IF db = "unconfigured"
    THEN HTTPException(op, 500, "Database not configured", <<>>)
    ELSE Unhandled(op, <<"insert_one">>)

\* What a handler leaves behind: the collections, the id counter, the response.
Result(p, o, n, r) == [product |-> p, order |-> o, nextId |-> n, resp |-> r]
Unchanged(r) == Result(product, order, nextId, r)

\* ---------------------------------------------------------------- products

\* bool(x) of a stored boolean: None is falsy.
Bool(v) == IF v = None THEN Some(FALSE) ELSE v

\* The mapping with the category read under a misspelt key.
ProductOutArgsMisspelt(d) ==
    [id |-> Str(d["_id"]),
     title |-> Get(d, "title"),
     description |-> Get(d, "description"),
     price |-> GetOr(d, "price", 0),
     category |-> GetOr(d, "catgory", "General"),
     in_stock |-> Bool(GetOr(d, "in_stock", TRUE)),
     image |-> Get(d, "image"),
     rating |-> IF Get(d, "rating") # None THEN GetOr(d, "rating", 0) ELSE Some(0)]

\* The arguments ProductOut(...) is built from, read with their fallbacks.
ProductOutArgs(d) ==
    [id |-> Str(d["_id"]),
     title |-> Get(d, "title"),
     description |-> Get(d, "description"),
     price |-> GetOr(d, "price", 0),
     category |-> GetOr(d, "category", "General"),
     in_stock |-> Bool(GetOr(d, "in_stock", TRUE)),
     image |-> Get(d, "image"),
     rating |-> IF Get(d, "rating") # None THEN GetOr(d, "rating", 0) ELSE Some(0)]

\* Building the output raises when float(None) is taken of a null price
\* (TypeError) or when a field ProductOut declares as str is None
\* (ValidationError).
ProductOutRaises(d) ==
    \/ GetOr(d, "price", 0) = None
    \/ ProductOutArgs(d).title = None
    \/ ProductOutArgs(d).category = None

\* CreateProduct: the fields whose constraint the request body violates.
CreateProductErrors(body) ==
    {k \in {"title", "price", "category"} : Get(body, k) = None}
    \cup {k \in {"price"} : Get(body, k) # None /\ ~(body[k][1] >= 0)}
    \cup {k \in {"in_stock"} : k \in DOMAIN body /\ body[k] = None}

\* payload.model_dump(): every field of CreateProduct, defaults filled in.
CreateProductDump(body) ==
    [title |-> body["title"],
     description |-> Get(body, "description"),
     price |-> body["price"],
     category |-> body["category"],
     in_stock |-> GetOr(body, "in_stock", TRUE),
     image |-> Get(body, "image"),
     rating |-> GetOr(body, "rating", 0)]

DefaultProductLimit == 50

\* GET /products
list_products(q, category, limit) ==
    IF db = "unconfigured"
    THEN Unchanged(HTTPException("list_products", 500, "Database not configured", <<>>))
    ELSE IF db = "failing"
    THEN Unchanged(Unhandled("list_products", <<"find">>))
    ELSE
    LET keys == {k \in {"title"} : Truthy(q)} \cup {k \in {"category"} : Truthy(category)}
        filter_query == [k \in keys |-> IF k = "title" THEN Regex(q[1], "i") ELSE Eq(category)]
        docs == Limit(Find(product, filter_query), limit)
    IN IF \E i \in DOMAIN docs : ProductOutRaises(docs[i])
       THEN Unchanged(Unhandled("list_products", <<"find">>))
       ELSE Unchanged(Response("list_products", 200, "OK",
                               [i \in DOMAIN docs |-> ProductOutArgs(docs[i])], <<"find">>))

\* POST /products
create_product(body) ==
    IF CreateProductErrors(body) # {}
    THEN Unchanged(Response("create_product", 422, "Unprocessable Entity",
                            CreateProductErrors(body), <<>>))
    ELSE IF db # "configured"
    THEN Unchanged(create_document_raises("create_product"))
    ELSE
    LET product_dict == CreateProductDump(body)
        inserted == create_document(product, nextId, product_dict, clock)
    IN Result(inserted.collection, order, inserted.nextId,
              Response("create_product", 201, "Created", [id |-> inserted.id], <<"insert_one">>))

\* get_product once the id text is known to be well formed: the lookup and the
\* mapping of the document found.  db.product on a handle that is None raises
\* AttributeError before any call is made.
find_product(product_id) ==
    IF db = "unconfigured"
    THEN Unchanged(Unhandled("get_product", <<>>))
    ELSE IF db = "failing"
    THEN Unchanged(Unhandled("get_product", <<"find_one">>))
    ELSE
    LET doc == FindOne(product, ("_id" :> Eq(ObjectId(product_id))))
    IN IF doc = None
       THEN Unchanged(HTTPException("get_product", 404, "Product not found", <<"find_one">>))
       ELSE IF ProductOutRaises(doc[1])
       THEN Unchanged(Unhandled("get_product", <<"find_one">>))
       ELSE Unchanged(Response("get_product", 200, "OK", ProductOutArgs(doc[1]), <<"find_one">>))

\* get_product with the guard the other handlers open with put first.
get_product_guarded(product_id) ==
    IF db = "unconfigured"
    THEN Unchanged(HTTPException("get_product", 500, "Database not configured", <<>>))
    ELSE IF ~IsValid(product_id)
    THEN Unchanged(HTTPException("get_product", 400, "Invalid product id", <<>>))
    ELSE find_product(product_id)

\* GET /products/{product_id}
get_product(product_id) ==
    IF ~IsValid(product_id)
    THEN Unchanged(HTTPException("get_product", 400, "Invalid product id", <<>>))
    ELSE find_product(product_id)

\* The built-in sample set of /seed.
sample ==
    <<[title |-> Some("Wireless Headphones"), description |-> Some("headphones"),
       price |-> Some(9999), category |-> Some("Electronics"), in_stock |-> Some(TRUE),
       image |-> Some("photo-1518443881150"), rating |-> Some(45)],
      [title |-> Some("Smart Watch"), description |-> Some("watch"),
       price |-> Some(14999), category |-> Some("Wearables"), in_stock |-> Some(TRUE),
       image |-> Some("photo-1511732351157"), rating |-> Some(42)],
      [title |-> Some("Running Shoes"), description |-> Some("shoes"),
       price |-> Some(7999), category |-> Some("Footwear"), in_stock |-> Some(TRUE),
       image |-> Some("photo-1525966222134"), rating |-> Some(46)],
      [title |-> Some("Backpack"), description |-> Some("backpack"),
       price |-> Some(5999), category |-> Some("Accessories"), in_stock |-> Some(TRUE),
       image |-> Some("photo-1514477917009"), rating |-> Some(41)]>>

\* The existence check made on a field no document has.
SeedInsertsByName(collection, p) == FindOne(collection, [name |-> Eq(p.title)]) = None

\* Whether the loop of /seed inserts sample p into the collection as it stands.
SeedInserts(collection, p) == FindOne(collection, [title |-> Eq(p.title)]) = None

\* The loop of /seed from sample i on: the collection, the id counter, the count
\* inserted and the store calls made.
RECURSIVE SeedLoop(_, _, _, _, _)
SeedLoop(i, collection, id, inserted, calls) ==
    IF i > Len(sample)
    THEN [collection |-> collection, nextId |-> id, inserted |-> inserted, calls |-> calls]
    ELSE IF SeedInserts(collection, sample[i])
    THEN LET created == create_document(collection, id, sample[i], clock)
         IN SeedLoop(i + 1, created.collection, created.nextId, inserted + 1,
                     calls \o <<"find_one", "insert_one">>)
    ELSE SeedLoop(i + 1, collection, id, inserted, calls \o <<"find_one">>)

\* POST /seed
seed_products ==
    IF db = "unconfigured"
    THEN Unchanged(HTTPException("seed_products", 500, "Database not configured", <<>>))
    ELSE IF db = "failing"
    THEN Unchanged(Unhandled("seed_products", <<"find_one">>))
    ELSE
    LET done == SeedLoop(1, product, nextId, 0, <<>>)
    IN Result(done.collection, order, done.nextId,
              Response("seed_products", 200, "OK", [inserted |-> done.inserted], done.calls))

\* ---------------------------------------------------------------- orders

\* CreateOrder and OrderItem: the fields whose constraint the request body
\* violates.  Fields the model does not declare (total_amount, order_number,
\* status) are ignored.
CreateOrderErrors(body) ==
    {k \in {"customer_name", "customer_email", "shipping_address", "items"} :
        Get(body, k) = None}
    \cup {k \in {"items.quantity"} :
            Get(body, "items") # None
            /\ \E i \in DOMAIN body["items"][1] : ~(body["items"][1][i].quantity >= 1)}
    \cup {k \in {"items.price"} :
            Get(body, "items") # None
            /\ \E i \in DOMAIN body["items"][1] : ~(body["items"][1][i].price >= 0)}

\* sum([it.price * it.quantity for it in items])
RECURSIVE Total(_)
Total(items) ==
    IF items = <<>> THEN 0
    ELSE items[1].price * items[1].quantity + Total(Tail(items))

\* f"ORD-{datetime.utcnow().strftime('%Y%m%d%H%M%S')}"
OrderNumber(now) == [prefix |-> "ORD-", stamp |-> now]

\* The order document with the client's values kept for the derived fields.
OrderDocTrusting(body, total, order_number) ==
    [customer_name |-> body["customer_name"],
     customer_email |-> body["customer_email"],
     shipping_address |-> body["shipping_address"],
     items |-> body["items"],
     total_amount |-> GetOr(body, "total_amount", total),
     order_number |-> GetOr(body, "order_number", order_number),
     status |-> GetOr(body, "status", "pending")]

\* The order document create_order builds from the validated payload.
OrderDoc(body, total, order_number) ==
    [customer_name |-> body["customer_name"],
     customer_email |-> body["customer_email"],
     shipping_address |-> body["shipping_address"],
     items |-> body["items"],
     total_amount |-> Some(total),
     order_number |-> Some(order_number),
     status |-> Some("pending")]

\* The emptiness check left out.
IsEmptyOrderNever(items) == FALSE

\* len(payload.items) == 0
IsEmptyOrder(items) == Len(items) = 0

\* POST /orders
create_order(body) ==
    IF CreateOrderErrors(body) # {}
    THEN Unchanged(Response("create_order", 422, "Unprocessable Entity",
                            CreateOrderErrors(body), <<>>))
    ELSE IF IsEmptyOrder(body["items"][1])
    THEN Unchanged(HTTPException("create_order", 400,
                                 "Order must contain at least one item", <<>>))
    ELSE
    LET total == Total(body["items"][1])
        order_number == OrderNumber(clock)
        order_doc == OrderDoc(body, total, order_number)
    IN IF db # "configured"
       THEN Unchanged(create_document_raises("create_order"))
       ELSE
       LET inserted == create_document(order, nextId, order_doc, clock)
       IN Result(product, inserted.collection, inserted.nextId,
                 Response("create_order", 201, "Created",
                          [id |-> inserted.id,
                           order_number |-> order_number,
                           total_amount |-> total,
                           items |-> body["items"][1],
                           status |-> "pending",
                           created_at |-> clock],
                          <<"insert_one">>))

\* cursor.sort("created_at", -1): the documents by created_at descending.  The
\* store returns documents with equal keys in any order.
SortDescending(collection) ==
    {[i \in DOMAIN collection |-> collection[p[i]]] :
        p \in {q \in Permutations(DOMAIN collection) :
                 \A i, j \in DOMAIN collection :
                    i < j => Get(collection[q[i]], "created_at")[1]
                               >= Get(collection[q[j]], "created_at")[1]}}

\* One summary of GET /orders.
OrderSummary(d) ==
    [id |-> Str(d["_id"]),
     order_number |-> Get(d, "order_number"),
     total_amount |-> Get(d, "total_amount"),
     status |-> Get(d, "status"),
     created_at |-> Get(d, "created_at")]

DefaultOrderLimit == 20

\* GET /orders: the responses the store's tie order allows.
list_orders(limit) ==
    IF db = "unconfigured"
    THEN {Unchanged(HTTPException("list_orders", 500, "Database not configured", <<>>))}
    ELSE IF db = "failing"
    THEN {Unchanged(Unhandled("list_orders", <<"find">>))}
    ELSE {Unchanged(Response("list_orders", 200, "OK",
                             [orders |-> [i \in DOMAIN Limit(sorted, limit) |->
                                             OrderSummary(sorted[i])]],
                             <<"find">>)) :
            sorted \in SortDescending(order)}

\* ---------------------------------------------------------------- requests

\* POST /products bodies: the spec's example body and bodies that differ from it
\* in one respect.
ProductBase ==
    [title |-> Some("Mug"), price |-> Some(999), category |-> Some("Home")]

ProductFull ==
    [title |-> Some("Mug"), description |-> Some("A mug"), price |-> Some(999),
     category |-> Some("Home"), in_stock |-> Some(FALSE), image |-> Some("mug.png"),
     rating |-> Some(30)]

ProductBodies ==
    {ProductBase, ProductFull}
    \cup {[ProductBase EXCEPT !["price"] = Some(x)] : x \in {-100, 0}}
    \cup {("rating" :> r) @@ ProductBase : r \in {None, Some(-10), Some(50), Some(60)}}
    \cup {[ProductBase EXCEPT !["title"] = Some("Backpack")]}
    \cup {[k \in {"price", "category"} |-> ProductBase[k]]}

\* GET /products/{product_id} path texts: the ids of the first documents, a
\* well-formed id of no document, and malformed texts.
ProductIds ==
    {Str(n) : n \in 0..2}
    \cup {[i \in 1..24 |-> "F"]}
    \cup {<<>>, [i \in 1..23 |-> "0"], [i \in 1..25 |-> "0"],
          [i \in 1..24 |-> IF i = 24 THEN "g" ELSE "0"]}

\* GET /products query parameters; None is a parameter not given.
Queries == {None, Some(""), Some("mug"), Some(".")}
Categories == {None, Some("Home")}
Limits == {None, Some(0), Some(2)}

\* POST /orders bodies.
ItemA == [product_id |-> "p1", title |-> "Mug", quantity |-> 2, price |-> 999]
ItemB == [product_id |-> "p2", title |-> "Backpack", quantity |-> 1, price |-> 5999]
ItemBadQuantity == [product_id |-> "p1", title |-> "Mug", quantity |-> 0, price |-> 999]
ItemBadPrice == [product_id |-> "p1", title |-> "Mug", quantity |-> 1, price |-> -1]

ItemLists == {<<>>, <<ItemA>>, <<ItemB, ItemA>>, <<ItemBadQuantity>>, <<ItemA, ItemBadPrice>>}

OrderBase(items) ==
    [customer_name |-> Some("A"), customer_email |-> Some("a@b.com"),
     shipping_address |-> Some("X"), items |-> Some(items)]

\* Values a client supplies for the derived fields.
ClientDerived ==
    [total_amount |-> Some(1), order_number |-> Some("ORD-0"), status |-> Some("shipped")]

OrderBodiesPlain ==
    {OrderBase(items) : items \in ItemLists}
    \cup {[k \in DOMAIN OrderBase(items) \ {"customer_name"} |-> OrderBase(items)[k]] :
            items \in {<<>>, <<ItemA>>}}
    \cup {[OrderBase(items) EXCEPT !["customer_email"] = None] : items \in {<<>>}}
    \cup {[OrderBase(items) EXCEPT !["customer_email"] = Some("not-an-email")] :
            items \in {<<>>}}
    \cup {[k \in DOMAIN OrderBase(<<>>) \ {"items"} |-> OrderBase(<<>>)[k]]}

OrderBodies == OrderBodiesPlain \cup {ClientDerived @@ b : b \in OrderBodiesPlain}

\* ---------------------------------------------------------------- the machine

\* A document written to db.product before this service's CreateProduct shape:
\* it holds the fields in present, and its _id.
LegacyFull ==
    [title |-> Some("Old"), description |-> Some("An old product"), price |-> Some(500),
     category |-> Some("Home"), in_stock |-> Some(FALSE), image |-> Some("old.png"),
     rating |-> Some(20)]
LegacyDoc(present) == ("_id" :> 0) @@ [k \in present |-> LegacyFull[k]]

\* The product collection the service may find at start.
StartProducts == {<<>>, <<LegacyDoc({"title", "price"})>>}

\* The state after startup, for the given store handles and product collections.
Start(handles, collections) ==
    /\ db \in handles
    /\ product \in collections
    /\ order = <<>>
    /\ nextId = 1
    /\ clock = 0
    /\ req = [op |-> "none"]
    /\ resp = Response("none", 0, "", None, <<>>)

Handles == {"configured", "failing", "unconfigured"}

Init == Start(Handles, StartProducts)

\* The handler's result becomes the state.
Becomes(result) ==
    /\ product' = result.product
    /\ order' = result.order
    /\ nextId' = result.nextId
    /\ resp' = result.resp
    /\ UNCHANGED <<db, clock>>

\* Documents of db.product that /seed did not write.
IsSample(d) == \E i \in DOMAIN sample : \A k \in DOMAIN sample[i] : Get(d, k) = sample[i][k]
Created(collection) == Len(SelectSeq(collection, LAMBDA d : ~IsSample(d)))

LimitOr(limit, default) == IF limit = None THEN default ELSE limit[1]

ListProducts ==
    \E q \in Queries, category \in Categories, limit \in Limits :
        /\ req' = [op |-> "list_products", q |-> q, category |-> category, limit |-> limit]
        /\ \E result \in {list_products(q, category, LimitOr(limit, DefaultProductLimit))} :
              Becomes(result)

CreateProduct ==
    /\ Created(product) < MaxProducts
    /\ \E body \in ProductBodies :
        /\ req' = [op |-> "create_product", body |-> body]
        /\ \E result \in {create_product(body)} : Becomes(result)

GetProduct ==
    \E product_id \in ProductIds :
        /\ req' = [op |-> "get_product", product_id |-> product_id]
        /\ \E result \in {get_product(product_id)} : Becomes(result)

SeedProducts ==
    /\ req' = [op |-> "seed_products"]
    /\ \E result \in {seed_products} : Becomes(result)

CreateOrder ==
    /\ Len(order) < MaxOrders
    /\ \E body \in OrderBodies :
        /\ req' = [op |-> "create_order", body |-> body]
        /\ \E result \in {create_order(body)} : Becomes(result)

ListOrders ==
    \E limit \in Limits :
        /\ req' = [op |-> "list_orders", limit |-> limit]
        /\ \E result \in list_orders(LimitOr(limit, DefaultOrderLimit)) : Becomes(result)

\* Time passes between requests.
Tick ==
    /\ clock < MaxClock
    /\ clock' = clock + 1
    /\ UNCHANGED <<db, product, order, nextId, req, resp>>

Next ==
    \/ ListProducts
    \/ CreateProduct
    \/ GetProduct
    \/ SeedProducts
    \/ CreateOrder
    \/ ListOrders
    \/ Tick

Spec == Init /\ [][Next]_vars

\* The product routes and the order routes share no collection, so each
\* property is checked under the routes it concerns.
\* The catalog endpoints alone.
NextCatalog ==
    \/ ListProducts
    \/ CreateProduct
    \/ GetProduct
    \/ SeedProducts

SpecCatalog == Init /\ [][NextCatalog]_vars

\* The order endpoints alone, on a configured or failing or unconfigured store.
NextOrders ==
    \/ CreateOrder
    \/ ListOrders
    \/ Tick

InitOrders == Start(Handles, {<<>>})

SpecOrders == InitOrders /\ [][NextOrders]_vars

\* The catalog endpoints from an empty, configured store.
InitFresh == Start({"configured"}, {<<>>})

SpecFresh == InitFresh /\ [][NextCatalog]_vars

\* Every endpoint on an unconfigured store.
InitUnconfigured == Start({"unconfigured"}, StartProducts)

SpecUnconfigured == InitUnconfigured /\ [][Next]_vars

\* The read endpoints over a store holding one older document with any subset
\* of the product fields.
InitLegacy ==
    Start({"configured"}, {<<LegacyDoc(present)>> : present \in SUBSET DOMAIN LegacyFull})

NextRead ==
    \/ ListProducts
    \/ GetProduct

SpecLegacy == InitLegacy /\ [][NextRead]_vars

\* ---------------------------------------------------------------- claims

\* C1: Seed is idempotent by title.  In every state a successful Seed call has
\* just produced, from whatever store it started, a second Seed call reports
\* inserted = 0 and leaves the number of products as the first call left it.
SeedIsIdempotent ==
    (req.op = "seed_products" /\ resp.status = 200)
    => \E second \in {seed_products} :
          /\ second.resp.status = 200
          /\ second.resp.body.inserted = 0
          /\ Len(second.product) = Len(product)

\* C1 witness: a second Seed call has answered inserted = 0 on a store that
\* holds a product created through the API beside the four samples.
SeedCalledTwice ==
    /\ req.op = "seed_products"
    /\ resp.status = 200
    /\ resp.body.inserted = 0
    /\ Len(product) > Len(sample)

\* The id-format grammar of the store, read off the text: 24 characters, each
\* a hexadecimal digit.
WellFormedId(text) ==
    /\ Len(text) = 24
    /\ \A i \in DOMAIN text :
          text[i] \in {"0", "1", "2", "3", "4", "5", "6", "7", "8", "9",
                       "a", "b", "c", "d", "e", "f", "A", "B", "C", "D", "E", "F"}

\* C3: Get Product by Id with a malformed id text fails with InvalidIdFormat
\* (400) and the handler makes no store call, whatever the state of the store.
MalformedIdFailsBeforeStore ==
    (req.op = "get_product" /\ ~WellFormedId(req.product_id))
    => /\ resp.status = 400
       /\ resp.detail = "Invalid product id"
       /\ resp.calls = <<>>

\* C3 witness: a text of 24 characters with a non-hex one was refused on an
\* unconfigured store.
MalformedIdOnUnconfiguredStore ==
    /\ req.op = "get_product"
    /\ Len(req.product_id) = 24
    /\ ~WellFormedId(req.product_id)
    /\ db = "unconfigured"
    /\ resp.status = 400

\* A Create Product body that is valid in the sense of the data model: the
\* required fields, price >= 0, and a rating, when given, in [0, 5].
ValidProductInput(body) ==
    /\ {"title", "price", "category"} \subseteq DOMAIN body
    /\ body["title"] # None /\ body["category"] # None
    /\ body["price"] # None /\ body["price"][1] >= 0
    /\ "rating" \in DOMAIN body
          => body["rating"] # None /\ body["rating"][1] >= 0 /\ body["rating"][1] <= 50

\* The output a valid body is expected back as: its own values, and the server
\* default for each optional field it omits.
ExpectedProduct(body, id) ==
    [id |-> id,
     title |-> body["title"],
     description |-> IF "description" \in DOMAIN body THEN body["description"] ELSE None,
     price |-> body["price"],
     category |-> body["category"],
     in_stock |-> IF "in_stock" \in DOMAIN body THEN body["in_stock"] ELSE Some(TRUE),
     image |-> IF "image" \in DOMAIN body THEN body["image"] ELSE None,
     rating |-> IF "rating" \in DOMAIN body THEN body["rating"] ELSE Some(0)]

\* C5: product create/get round trip.  On a configured store, Create Product
\* with a valid body succeeds with an id, and Get Product by Id with that id
\* succeeds and returns the body's values with the server defaults for the
\* optional fields the body omits.
ProductRoundTrip ==
    (req.op = "create_product" /\ ValidProductInput(req.body) /\ db = "configured")
    => /\ resp.status = 201
       /\ \E got \in {get_product(resp.body.id).resp} :
             /\ got.status = 200
             /\ got.body = ExpectedProduct(req.body, resp.body.id)

\* C5 witness: a body that omits every optional field was created.
MinimalProductCreated ==
    /\ req.op = "create_product"
    /\ DOMAIN req.body = {"title", "price", "category"}
    /\ resp.status = 201
    /\ Len(product) > 0

\* The items of a Create Order body, when it has an items sequence.
HasItems(body) == "items" \in DOMAIN body /\ body["items"] # None
ItemsOf(body) == body["items"][1]

\* The other fields of a Create Order body are valid: present strings.
OtherFieldsValid(body) ==
    \A k \in {"customer_name", "customer_email", "shipping_address"} :
        k \in DOMAIN body /\ body[k] # None

\* C2 as stated: Create Order with an empty items sequence fails with EmptyOrder
\* (400) and inserts nothing, whatever the other fields are.
EmptyOrderAlwaysEmptyOrder ==
    (req.op = "create_order" /\ HasItems(req.body) /\ ItemsOf(req.body) = <<>>)
    => /\ resp.status = 400
       /\ resp.detail = "Order must contain at least one item"
       /\ resp.calls = <<>>

\* C2 amended: Create Order with an empty items sequence never inserts an order
\* document; it fails with EmptyOrder (400) when the other fields pass
\* validation and with SchemaViolation (422) when one of them is missing.
EmptyOrderNeverInserted ==
    (req.op = "create_order" /\ HasItems(req.body) /\ ItemsOf(req.body) = <<>>)
    => /\ resp.calls = <<>>
       /\ OtherFieldsValid(req.body)
            => resp.status = 400 /\ resp.detail = "Order must contain at least one item"
       /\ ~OtherFieldsValid(req.body) => resp.status = 422

\* C2 witness: an empty order with valid other fields was refused with 400 on a
\* configured store.
EmptyOrderRefused ==
    /\ req.op = "create_order"
    /\ HasItems(req.body) /\ ItemsOf(req.body) = <<>>
    /\ OtherFieldsValid(req.body)
    /\ db = "configured"
    /\ resp.status = 400

\* The sum over the first n items of price times quantity.
RECURSIVE SumOfItems(_, _)
SumOfItems(items, n) ==
    IF n = 0 THEN 0
    ELSE SumOfItems(items, n - 1) + items[n].quantity * items[n].price

\* A Create Order body that passes validation and has at least one item.
ValidOrderInput(body) ==
    /\ OtherFieldsValid(body)
    /\ HasItems(body)
    /\ Len(ItemsOf(body)) >= 1
    /\ \A i \in DOMAIN ItemsOf(body) :
          ItemsOf(body)[i].quantity >= 1 /\ ItemsOf(body)[i].price >= 0

\* C4: on a configured store a Create Order with at least one item that passes
\* validation succeeds, and a Create Order that succeeds answers, and stores, a
\* total_amount equal to the sum over the request's items of price times
\* quantity; the stored order_number and status are the server's, whatever
\* values the client sent for total_amount, order_number and status.
TotalAmountIsServerComputed ==
    /\ (req.op = "create_order" /\ ValidOrderInput(req.body) /\ db = "configured")
       => resp.status = 201
    /\ (req.op = "create_order" /\ resp.status = 201)
       => \E total \in {SumOfItems(ItemsOf(req.body), Len(ItemsOf(req.body)))} :
             /\ ValidOrderInput(req.body)
             /\ resp.body.total_amount = total
             /\ resp.body.status = "pending"
             /\ order[Len(order)]["total_amount"] = Some(total)
             /\ order[Len(order)]["status"] = Some("pending")
             /\ order[Len(order)]["order_number"] = Some(resp.body.order_number)
             /\ resp.body.order_number.prefix = "ORD-"
             /\ Str(order[Len(order)]["_id"]) = resp.body.id

\* C4 witness: an order of two items was created from a body that supplied its
\* own total_amount, order_number and status.
OrderCreatedWithClientTotals ==
    /\ req.op = "create_order"
    /\ resp.status = 201
    /\ {"total_amount", "order_number", "status"} \subseteq DOMAIN req.body
    /\ Len(ItemsOf(req.body)) = 2

\* C6 as stated: from an empty store, every product document has price >= 0 and
\* a rating in [0, 5] (a null rating counted as none), and a Create Product
\* body with a negative price or a rating outside [0, 5] is refused with 422
\* before any store call.
ProductDataInvariant ==
    /\ \A i \in DOMAIN product :
          /\ product[i]["price"][1] >= 0
          /\ product[i]["rating"] # None
                => product[i]["rating"][1] >= 0 /\ product[i]["rating"][1] <= 50
    /\ (/\ req.op = "create_product"
        /\ \/ Get(req.body, "price") # None /\ req.body["price"][1] < 0
           \/ Get(req.body, "rating") # None
                /\ (req.body["rating"][1] < 0 \/ req.body["rating"][1] > 50))
       => resp.status = 422 /\ resp.calls = <<>>

\* A request that passes its handler's input checks.
PassesInputChecks ==
    CASE req.op = "create_product" -> CreateProductErrors(req.body) = {}
      [] req.op = "create_order" ->
            CreateOrderErrors(req.body) = {} /\ ItemsOf(req.body) # <<>>
      [] req.op = "get_product" -> WellFormedId(req.product_id)
      [] OTHER -> TRUE

\* C7 as stated: on an unconfigured store every read/write endpoint, given a
\* request that passes its input checks, fails with StoreUnconfigured (500,
\* "Database not configured") without a store call.
UnconfiguredStoreRefuses ==
    (db = "unconfigured" /\ req.op # "none" /\ PassesInputChecks)
    => /\ resp.status = 500
       /\ resp.detail = "Database not configured"
       /\ resp.calls = <<>>

\* Whether the text contains q as a substring, letter case ignored.
ContainsIgnoringCase(text, q) ==
    \E i \in 0..(Len(Chars(text)) - Len(Chars(q))) :
        \A j \in 1..Len(Chars(q)) : Lower(Chars(text)[i + j]) = Lower(Chars(q)[j])

\* The filters of a List Products request as the claim reads them.
SatisfiesFilters(d, q, category) ==
    /\ q # None => Get(d, "title") # None /\ ContainsIgnoringCase(d["title"][1], q[1])
    /\ category # None => Get(d, "category") = category

\* The place in db.product of the document with the given id text, 0 if none.
PlaceOf(collection, id) ==
    IF \E i \in DOMAIN collection : Str(collection[i]["_id"]) = id
    THEN CHOOSE i \in DOMAIN collection : Str(collection[i]["_id"]) = id
    ELSE 0

\* C8 as stated: List Products returns, in store-native order, only products
\* that satisfy every filter given (title contains q, case ignored; category
\* equal), every product when no filter is given and they fit the limit, and
\* never more than limit products (50 when no limit is given).
ListProductsFiltersAndLimits ==
    (req.op = "list_products" /\ resp.status = 200)
    => /\ Len(resp.body) <= LimitOr(req.limit, 50)
       /\ \A i \in DOMAIN resp.body :
             /\ PlaceOf(product, resp.body[i].id) # 0
             /\ SatisfiesFilters(product[PlaceOf(product, resp.body[i].id)],
                                 req.q, req.category)
       /\ \A i, j \in DOMAIN resp.body :
             i < j => PlaceOf(product, resp.body[i].id) < PlaceOf(product, resp.body[j].id)
       /\ (req.q = None /\ req.category = None
             /\ Len(product) <= LimitOr(req.limit, 50))
            => Len(resp.body) = Len(product)

\* C9 as stated: List Orders returns at most limit summaries (20 when no limit
\* is given), and an order created later never comes after an order created
\* earlier.
ListOrdersNewestFirst ==
    (req.op = "list_orders" /\ resp.status = 200)
    => /\ Len(resp.body.orders) <= LimitOr(req.limit, 20)
       /\ \A i, j \in DOMAIN resp.body.orders :
             i < j => PlaceOf(order, resp.body.orders[i].id)
                        > PlaceOf(order, resp.body.orders[j].id)

\* The fallback the claim names for each product field but the title.
Fallback ==
    [description |-> None, price |-> Some(0), category |-> Some("General"),
     in_stock |-> Some(TRUE), image |-> None, rating |-> Some(0)]

\* The output carries the document's value for each field present and the
\* fallback for each field absent.
ReadWithFallbacks(d, out) ==
    /\ out.id = Str(d["_id"])
    /\ \A k \in DOMAIN LegacyFull \cap DOMAIN d : out[k] = d[k]
    /\ \A k \in DOMAIN Fallback \ DOMAIN d : out[k] = Fallback[k]

\* C10 as stated: over a stored product document that lacks any subset of its
\* fields, List Products and Get Product by Id do not fail and return the
\* document with the fallback in place of each absent field.
AbsentFieldsTolerated ==
    /\ (req.op = "list_products" /\ ~Truthy(req.q) /\ ~Truthy(req.category))
       => /\ resp.status = 200
          /\ \A i \in DOMAIN resp.body : ReadWithFallbacks(product[i], resp.body[i])
    /\ (req.op = "get_product" /\ WellFormedId(req.product_id)
          /\ PlaceOf(product, req.product_id) # 0)
       => /\ resp.status = 200
          /\ ReadWithFallbacks(product[PlaceOf(product, req.product_id)], resp.body)

====
